---- MODULE Spec2Model ----
(***************************************************************************)
(* MovieLens_EDA.py: one run of the notebook-style script, cell by cell.   *)
(* The state is the working directory's three csv files, the module-level  *)
(* dataframes and series the cells assign, the outputs shown so far, and   *)
(* the cell the run has reached.                                           *)
(*                                                                         *)
(* A table is a sequence of rows (records); a Series is a sequence of      *)
(* [id, val] entries in index order.  A mean is kept as the pair           *)
(* <<sum, count>> that pandas divides: sums and counts of integer ratings  *)
(* are exact in float64 and the division is correctly rounded, so two      *)
(* means are equal or ordered as floats exactly as the fractions are.      *)
(***************************************************************************)
EXTENDS Integers, Sequences, FiniteSets, TLC

\* Bounds of the input fixtures.
MaxMovieId == 12
MaxUserId == 3

\* Program constants.
MinRatings == 50
TopK == 10
MinRating == 1
MaxRating == 5

VARIABLES fs, pc, status, output,
          movie, ratings, user,
          ratings_per_movie, avg_rating_per_movie, top_10_highest_rated,
          filtered_movies, filtered_avg_ratings, top_10_movies,
          movie_titles, top_10_movies_df,
          ratings_users, avg_rating_by_gender, ratings_by_occupation

base == <<movie, ratings, user>>
derived == <<ratings_per_movie, avg_rating_per_movie, top_10_highest_rated,
             filtered_movies, filtered_avg_ratings, top_10_movies,
             movie_titles, top_10_movies_df,
             ratings_users, avg_rating_by_gender, ratings_by_occupation>>
vars == <<fs, pc, status, output, base, derived>>

(***************************************************************************)
(* Arithmetic on means.                                                    *)
(***************************************************************************)
\* a >= b for fractions a = <<s, n>>, b = <<t, m>> with n, m > 0.
MeanGe(a, b) == a[1] * b[2] >= b[1] * a[2]
MeanEq(a, b) == a[1] * b[2] = b[1] * a[2]

Min(a, b) == IF a <= b THEN a ELSE b

(***************************************************************************)
(* Input fixtures: what the three files may hold.                          *)
(***************************************************************************)
File(rows) == [state |-> "ok", rows |-> rows]
Missing == [state |-> "missing", rows |-> <<>>]
Malformed == [state |-> "malformed", rows |-> <<>>]

\* n rating rows of movie m: the first k rate it a + 1, the others a; the
\* users take turns, starting after user `off`.
Block(m, n, k, a, off) ==
    [i \in 1..n |->
        [user_id |-> ((off + i - 1) % (MaxUserId + 1)) + 1,
         movie_id |-> m,
         rating |-> IF i <= k THEN a + 1 ELSE a]]

\* Fixture profile p = [n, first, low, high]: movie ids 1..n are rated; movie
\* 1 by `first` rows, movies 2 and 3 by first + 1 rows each, movie m > 3 by
\* first + m - 2 rows.  Every rating is 3 or 4: the movies up to `low` are
\* rated 3 throughout, the last `high` movies 4 throughout, and the others
\* get a number of 4s that scatters their means.
ProfileCount(p, m) ==
    IF m = 1 THEN p.first ELSE IF m <= 3 THEN p.first + 1 ELSE p.first + m - 2
ProfileFours(p, m) ==
    IF m <= p.low THEN 0
    ELSE IF m > p.n - p.high THEN ProfileCount(p, m)
    ELSE Min(ProfileCount(p, m), 1 + ((m * 7) % 13))

RECURSIVE ProfileRows(_, _)
ProfileRows(p, m) ==
    IF m = 0 THEN <<>>
    ELSE LET before == ProfileRows(p, m - 1)
         IN  before \o Block(m, ProfileCount(p, m), ProfileFours(p, m), 3,
                             Len(before))

Profiles ==
    { [n |-> 2, first |-> 1, low |-> 0, high |-> 0],
      [n |-> 4, first |-> MinRatings - 1, low |-> 0, high |-> 0],
      [n |-> 4, first |-> MinRatings - 1, low |-> 0, high |-> 2],
      [n |-> TopK - 1, first |-> MinRatings - 2, low |-> 1, high |-> 0],
      [n |-> TopK + 1, first |-> MinRatings - 3, low |-> 2, high |-> 0],
      [n |-> TopK + 1, first |-> MinRatings, low |-> 2, high |-> 0],
      [n |-> MaxMovieId, first |-> MinRatings - 1, low |-> 0, high |-> 0],
      [n |-> MaxMovieId, first |-> MinRatings, low |-> 3, high |-> 2] }

\* The fixture of the specification's example: M1 rated 5, 5, 4 and M2 rated 1.
ExampleRatings ==
    << [user_id |-> 1, movie_id |-> 1, rating |-> 5],
       [user_id |-> 2, movie_id |-> 1, rating |-> 5],
       [user_id |-> 3, movie_id |-> 1, rating |-> 4],
       [user_id |-> 1, movie_id |-> 2, rating |-> 1] >>

RatingsFiles ==
    {Malformed, File(ExampleRatings)}
        \cup {File(ProfileRows(p, p.n)) : p \in Profiles}

MovieRow(m) == [movie_id |-> m, movie_title |-> <<"title", m>>,
                release_date |-> "01-Jan-1995"]
AllMovies == File([i \in 1..MaxMovieId |-> MovieRow(i)])
\* Every id; only the even ids; every id with id 1 listed twice.
MovieFiles ==
    { Missing,
      AllMovies,
      File([i \in 1..(MaxMovieId \div 2) |-> MovieRow(2 * i)]),
      File(<<MovieRow(1)>> \o [i \in 1..MaxMovieId |-> MovieRow(i)]) }

Occupations == <<"student", "engineer", "educator">>
UserRow(u) == [user_id |-> u, age |-> 20 + u,
               gender |-> IF u % 2 = 1 THEN "M" ELSE "F",
               occupation |-> Occupations[(u % 3) + 1]]
AllUsers == File([i \in 1..(MaxUserId + 1) |-> UserRow(i)])
\* Every user; all but the last; every user with user 1 listed twice; one
\* user only, who rated nothing.
UserFiles ==
    { Missing,
      AllUsers,
      File([i \in 1..MaxUserId |-> UserRow(i)]),
      File(<<UserRow(1)>> \o [i \in 1..(MaxUserId + 1) |-> UserRow(i)]),
      File(<<UserRow(MaxUserId + 2)>>) }

(***************************************************************************)
(* pandas operations, as the script uses them.                             *)
(***************************************************************************)
\* pd.read_csv raises unless the file is there and parses.
Loadable(f) == f.state = "ok"
read_csv(f) == f.rows

\* A column of a table.
Column(rows, c) == [i \in DOMAIN rows |-> rows[i][c]]

\* The place of key k in series s, 0 when it has none.
Place(s, k) ==
    IF \E i \in DOMAIN s : s[i].id = k
    THEN CHOOSE i \in DOMAIN s : s[i].id = k ELSE 0

\* Combine with the bug of assigning where it should add: a key seen again
\* keeps only the later part's sum and count.
RECURSIVE CombineOverwrite(_, _, _)
CombineOverwrite(a, b, j) ==
    IF j = 0 THEN a
    ELSE LET acc == CombineOverwrite(a, b, j - 1)
             at == Place(acc, b[j].id)
         IN  IF at > 0
             THEN [acc EXCEPT ![at].val = b[j].val]
             ELSE Append(acc, b[j])

\* Series b's entries added into series a: a key a already has adds its sum
\* and count there, a new key is appended.
RECURSIVE Combine(_, _, _)
Combine(a, b, j) ==
    IF j = 0 THEN a
    ELSE LET acc == Combine(a, b, j - 1)
             at == Place(acc, b[j].id)
         IN  IF at > 0
             THEN [acc EXCEPT ![at].val =
                        <<@[1] + b[j].val[1], @[2] + b[j].val[2]>>]
             ELSE Append(acc, b[j])

\* The grouping pass of groupby and value_counts over rows lo..hi, hashing
\* on the key column: one entry per key in the order the keys first occur,
\* with <<sum, count>> of the value column over that key's rows.  The pass
\* is evaluated by halves (sums and counts add up the same way).
RECURSIVE GroupAgg(_, _, _, _)
GroupAgg(keys, vals, lo, hi) ==
    IF lo > hi THEN <<>>
    ELSE IF lo = hi THEN <<[id |-> keys[lo], val |-> <<vals[lo], 1>>]>>
    ELSE LET mid == (lo + hi) \div 2
             right == GroupAgg(keys, vals, mid + 1, hi)
         IN  Combine(GroupAgg(keys, vals, lo, mid), right, Len(right))

\* Strings have no order in this model: the genders and occupations are
\* ranked by their place in this list (alphabetical); an integer key is its
\* own rank.
Labels == <<"F", "M", "educator", "engineer", "student">>
LabelRank(l) == CHOOSE i \in DOMAIN Labels : Labels[i] = l

\* The entries I of series s in ascending order of rank (the keys are
\* distinct): the index order of a groupby result (sort=True).
RECURSIVE ByRank(_, _, _)
ByRank(s, rank, I) ==
    IF I = {} THEN <<>>
    ELSE LET m == CHOOSE i \in I : \A j \in I : rank[i] <= rank[j]
         IN  <<s[m]>> \o ByRank(s, rank, I \ {m})

\* GroupByMean with the bug of dividing every sum by the number of all rows.
GroupByMeanOverAll(rows, key, val) ==
    LET agg == GroupAgg(Column(rows, key), Column(rows, val), 1, Len(rows))
        all == [i \in DOMAIN agg |->
                    [id |-> agg[i].id, val |-> <<agg[i].val[1], Len(rows)>>]]
    IN  ByRank(all, [i \in DOMAIN all |-> all[i].id], DOMAIN all)

\* ratings.groupby('movie id')['rating'].mean(): a Series indexed by the
\* movie ids ascending, each with the mean of its own rows.
GroupByMean(rows, key, val) ==
    LET agg == GroupAgg(Column(rows, key), Column(rows, val), 1, Len(rows))
    IN  ByRank(agg, [i \in DOMAIN agg |-> agg[i].id], DOMAIN agg)

\* The same for a column of strings (gender).
GroupByMeanLabels(rows, key, val) ==
    LET agg == GroupAgg(Column(rows, key), Column(rows, val), 1, Len(rows))
    IN  ByRank(agg, [i \in DOMAIN agg |-> LabelRank(agg[i].id)], DOMAIN agg)

\* Every order of the entries I of series s that is non-increasing in the
\* sort key: sort_values(ascending=False) sorts with kind='quicksort', which
\* is not stable, so entries with equal keys may come out in any order.  (The
\* library's quicksort happens to keep ties in place on very short inputs;
\* the order it leaves them in on longer ones, such as the 1682 movies of the
\* data set, is not specified, and the model takes no order for granted.)
RECURSIVE Arrangements(_, _)
Arrangements(s, I) ==
    IF I = {} THEN {<<>>}
    ELSE UNION { { <<s[i]>> \o t : t \in Arrangements(s, I \ {i}) } :
                 i \in {j \in I : \A k \in I : MeanGe(s[j].val, s[k].val)} }

\* sort_values with ascending=False forgotten: every non-decreasing order.
RECURSIVE ArrangementsAscending(_, _)
ArrangementsAscending(s, I) ==
    IF I = {} THEN {<<>>}
    ELSE UNION { { <<s[i]>> \o t : t \in ArrangementsAscending(s, I \ {i}) } :
                 i \in {j \in I : \A k \in I : MeanGe(s[k].val, s[j].val)} }
sort_values_ascending(s) == ArrangementsAscending(s, DOMAIN s)

\* Series.sort_values(ascending=False) of a Series of means: its outcomes.
sort_values(s) == Arrangements(s, DOMAIN s)

\* head with tail in its place: the last n entries.
tail(s, n) == SubSeq(s, Len(s) - Min(n, Len(s)) + 1, Len(s))

\* Series.head(n).
head(s, n) == SubSeq(s, 1, Min(n, Len(s)))

\* The counts of value_counts before they are sorted: one entry per value
\* that occurs, in the order of first occurrence.
Counted(col) ==
    LET agg == GroupAgg(col, [i \in DOMAIN col |-> 1], 1, Len(col))
    IN  [i \in DOMAIN agg |-> [id |-> agg[i].id, val |-> <<agg[i].val[2], 1>>]]

\* Series.value_counts(): the counts, sorted descending by the same unstable
\* sort; an entry's val is the count.
value_counts(col) ==
    { [i \in DOMAIN t |-> [id |-> t[i].id, val |-> t[i].val[1]]] :
      t \in sort_values(Counted(col)) }

\* AtLeast with > for >=.
MoreThan(s, n) == SelectSeq(s, LAMBDA e : e.val > n)

\* ratings_per_movie[ratings_per_movie >= 50]: the boolean mask keeps the
\* entries that pass, in their order.
AtLeast(s, n) == SelectSeq(s, LAMBDA e : e.val >= n)

Ids(s) == {s[i].id : i \in DOMAIN s}
Lookup(s, id) == s[CHOOSE i \in DOMAIN s : s[i].id = id]

\* avg_rating_per_movie[index]: the entries of the labels, in the labels'
\* order; a label that is not in the Series raises KeyError.
HasLabels(s, labels) == \A i \in DOMAIN labels : labels[i] \in Ids(s)
Select(s, labels) == [i \in DOMAIN labels |-> Lookup(s, labels[i])]

\* merge with the bug of joining on the row position, not on the key.
merge_on_index(left, right, key, lo, hi) ==
    [i \in 1..(Min(hi, Len(right)) - lo + 1) |->
        left[lo + i - 1] @@ right[lo + i - 1]]

\* left.merge(right, on=key) (how='inner'), for left rows lo..hi: each left
\* row, in the left's order, once with each right row of the same key, in
\* the right's order; a left row whose key the right table lacks yields no
\* row.
RECURSIVE merge(_, _, _, _, _)
merge(left, right, key, lo, hi) ==
    IF lo > hi THEN <<>>
    ELSE IF lo = hi
    THEN LET hits == SelectSeq(right, LAMBDA r : r[key] = left[lo][key])
         IN  [j \in DOMAIN hits |-> left[lo] @@ hits[j]]
    ELSE LET mid == (lo + hi) \div 2
         IN  merge(left, right, key, lo, mid)
                \o merge(left, right, key, mid + 1, hi)

\* movie[['movie id', 'movie title']].
Titles(rows) ==
    [i \in DOMAIN rows |->
        [movie_id |-> rows[i].movie_id, movie_title |-> rows[i].movie_title]]

\* top_10_movies.reset_index(): the Series as a two-column table.
reset_index(s) == [i \in DOMAIN s |-> [movie_id |-> s[i].id, rating |-> s[i].val]]

(***************************************************************************)
(* The run: one action per cell (or group of cells that only print).       *)
(***************************************************************************)
\* The run starts before the first cell, in a directory whose files are any of
\* the fixtures, at most one of movie.csv and user.csv departing from the
\* complete table.
Init ==
    /\ fs \in [movie : MovieFiles, ratings : RatingsFiles, user : UserFiles]
    /\ fs.movie = AllMovies \/ fs.user = AllUsers
    /\ pc = "load_movie"
    /\ status = "running"
    /\ output = <<>>
    /\ movie = <<>> /\ ratings = <<>> /\ user = <<>>
    /\ ratings_per_movie = <<>>
    /\ avg_rating_per_movie = <<>>
    /\ top_10_highest_rated = <<>>
    /\ filtered_movies = <<>>
    /\ filtered_avg_ratings = <<>>
    /\ top_10_movies = <<>>
    /\ movie_titles = <<>>
    /\ top_10_movies_df = <<>>
    /\ ratings_users = <<>>
    /\ avg_rating_by_gender = <<>>
    /\ ratings_by_occupation = <<>>

At(cell) == status = "running" /\ pc = cell

\* An unhandled exception ends the run in the cell that raised it.
Raise == status' = "aborted" /\ pc' = pc /\ output' = output

\* The cell ran: its displays are shown and the next cell is up.
Shown(items, next) ==
    status' = "running" /\ pc' = next /\ output' = output \o items

LoadMovie ==
    /\ At("load_movie")
    /\ IF Loadable(fs.movie)
       THEN movie' = read_csv(fs.movie) /\ Shown(<<"movie.head">>, "load_ratings")
       ELSE movie' = movie /\ Raise
    /\ UNCHANGED <<fs, ratings, user, derived>>

\* LoadRatings with the failure swallowed: the run goes on with no ratings.
LoadRatingsLenient ==
    /\ At("load_ratings")
    /\ ratings' = IF Loadable(fs.ratings) THEN read_csv(fs.ratings) ELSE <<>>
    /\ Shown(<<"ratings.head">>, "load_user")
    /\ UNCHANGED <<fs, movie, user, derived>>

LoadRatings ==
    /\ At("load_ratings")
    /\ IF Loadable(fs.ratings)
       THEN ratings' = read_csv(fs.ratings)
            /\ Shown(<<"ratings.head">>, "load_user")
       ELSE ratings' = ratings /\ Raise
    /\ UNCHANGED <<fs, movie, user, derived>>

LoadUser ==
    /\ At("load_user")
    /\ IF Loadable(fs.user)
       THEN user' = read_csv(fs.user) /\ Shown(<<"user.head">>, "overview")
       ELSE user' = user /\ Raise
    /\ UNCHANGED <<fs, movie, ratings, derived>>

\* Shapes, info, describe and the ratings overview: prints only.
Overview ==
    /\ At("overview")
    /\ Shown(<<"shape", "info", "describe", "ratings overview">>,
             "ratings_per_movie")
    /\ UNCHANGED <<fs, base, derived>>

RatingsPerMovie ==
    /\ At("ratings_per_movie")
    /\ ratings_per_movie' \in value_counts(Column(ratings, "movie_id"))
    /\ Shown(<<"ratings_per_movie.head">>, "avg_rating")
    /\ UNCHANGED <<fs, base, avg_rating_per_movie, top_10_highest_rated,
                   filtered_movies, filtered_avg_ratings, top_10_movies,
                   movie_titles, top_10_movies_df, ratings_users,
                   avg_rating_by_gender, ratings_by_occupation>>

AvgRatingPerMovie ==
    /\ At("avg_rating")
    /\ avg_rating_per_movie' = GroupByMean(ratings, "movie_id", "rating")
    /\ \E sorted \in sort_values(avg_rating_per_movie') :
            top_10_highest_rated' = head(sorted, TopK)
    /\ Shown(<<"avg_rating_per_movie.head", "top_10_highest_rated">>, "filter")
    /\ UNCHANGED <<fs, base, ratings_per_movie,
                   filtered_movies, filtered_avg_ratings, top_10_movies,
                   movie_titles, top_10_movies_df, ratings_users,
                   avg_rating_by_gender, ratings_by_occupation>>

\* FilterMovies with a check that raises when no movie is retained.
FilterMoviesOrRaise ==
    /\ At("filter")
    /\ filtered_movies' = AtLeast(ratings_per_movie, MinRatings)
    /\ IF filtered_movies' # <<>>
       THEN /\ filtered_avg_ratings' =
                    Select(avg_rating_per_movie, Column(filtered_movies', "id"))
            /\ Shown(<<"filtered_movies", "filtered_avg_ratings">>, "top_10")
       ELSE filtered_avg_ratings' = filtered_avg_ratings /\ Raise
    /\ UNCHANGED <<fs, base, ratings_per_movie, avg_rating_per_movie,
                   top_10_highest_rated, top_10_movies,
                   movie_titles, top_10_movies_df, ratings_users,
                   avg_rating_by_gender, ratings_by_occupation>>

FilterMovies ==
    /\ At("filter")
    /\ filtered_movies' = AtLeast(ratings_per_movie, MinRatings)
    /\ LET labels == Column(filtered_movies', "id")
       IN  IF HasLabels(avg_rating_per_movie, labels)
           THEN /\ filtered_avg_ratings' = Select(avg_rating_per_movie, labels)
                /\ Shown(<<"filtered_movies", "filtered_avg_ratings">>, "top_10")
           ELSE /\ filtered_avg_ratings' = filtered_avg_ratings
                /\ status' = "aborted" /\ pc' = pc
                /\ output' = Append(output, "filtered_movies")
    /\ UNCHANGED <<fs, base, ratings_per_movie, avg_rating_per_movie,
                   top_10_highest_rated, top_10_movies,
                   movie_titles, top_10_movies_df, ratings_users,
                   avg_rating_by_gender, ratings_by_occupation>>

Top10Movies ==
    /\ At("top_10")
    /\ \E sorted \in sort_values(filtered_avg_ratings) :
            top_10_movies' = head(sorted, TopK)
    /\ Shown(<<"top_10_movies">>, "movie_titles")
    /\ UNCHANGED <<fs, base, ratings_per_movie, avg_rating_per_movie,
                   top_10_highest_rated, filtered_movies, filtered_avg_ratings,
                   movie_titles, top_10_movies_df, ratings_users,
                   avg_rating_by_gender, ratings_by_occupation>>

MovieTitles ==
    /\ At("movie_titles")
    /\ movie_titles' = Titles(movie)
    /\ Shown(<<"movie_titles.head">>, "attach_titles")
    /\ UNCHANGED <<fs, base, ratings_per_movie, avg_rating_per_movie,
                   top_10_highest_rated, filtered_movies, filtered_avg_ratings,
                   top_10_movies, top_10_movies_df, ratings_users,
                   avg_rating_by_gender, ratings_by_occupation>>

\* AttachTitles with how='left': a ranked id the movie table lacks keeps its
\* row, with no title.
AttachTitlesLeft ==
    /\ At("attach_titles")
    /\ top_10_movies_df' =
            LET left == reset_index(top_10_movies)
                inner == merge(left, movie_titles, "movie_id", 1, Len(left))
                found == {inner[i].movie_id : i \in DOMAIN inner}
                rest == SelectSeq(left, LAMBDA r : r.movie_id \notin found)
            IN  inner \o [i \in DOMAIN rest |->
                            rest[i] @@ [movie_title |-> <<"NaN">>]]
    /\ Shown(<<"top_10_movies_df", "top_10_movies_df titles">>,
             "plot_ratings_per_movie")
    /\ UNCHANGED <<fs, base, ratings_per_movie, avg_rating_per_movie,
                   top_10_highest_rated, filtered_movies, filtered_avg_ratings,
                   top_10_movies, movie_titles, ratings_users,
                   avg_rating_by_gender, ratings_by_occupation>>

AttachTitles ==
    /\ At("attach_titles")
    /\ top_10_movies_df' =
            LET left == reset_index(top_10_movies)
            IN  merge(left, movie_titles, "movie_id", 1, Len(left))
    /\ Shown(<<"top_10_movies_df", "top_10_movies_df titles">>,
             "plot_ratings_per_movie")
    /\ UNCHANGED <<fs, base, ratings_per_movie, avg_rating_per_movie,
                   top_10_highest_rated, filtered_movies, filtered_avg_ratings,
                   top_10_movies, movie_titles, ratings_users,
                   avg_rating_by_gender, ratings_by_occupation>>

PlotRatingsPerMovie ==
    /\ At("plot_ratings_per_movie")
    /\ Shown(<<"chart: ratings per movie">>, "plot_age")
    /\ UNCHANGED <<fs, base, derived>>

PlotAge ==
    /\ At("plot_age")
    /\ Shown(<<"chart: age">>, "merge_users")
    /\ UNCHANGED <<fs, base, derived>>

\* MergeUsers with the join assigned back to ratings.
MergeUsersInPlace ==
    /\ At("merge_users")
    /\ ratings' = merge(ratings, user, "user_id", 1, Len(ratings))
    /\ ratings_users' = ratings'
    /\ avg_rating_by_gender' = GroupByMeanLabels(ratings_users', "gender", "rating")
    /\ Shown(<<"avg_rating_by_gender">>, "plot_gender")
    /\ UNCHANGED <<fs, movie, user, ratings_per_movie, avg_rating_per_movie,
                   top_10_highest_rated, filtered_movies, filtered_avg_ratings,
                   top_10_movies, movie_titles, top_10_movies_df,
                   ratings_by_occupation>>

MergeUsers ==
    /\ At("merge_users")
    /\ ratings_users' = merge(ratings, user, "user_id", 1, Len(ratings))
    /\ avg_rating_by_gender' = GroupByMeanLabels(ratings_users', "gender", "rating")
    /\ Shown(<<"avg_rating_by_gender">>, "plot_gender")
    /\ UNCHANGED <<fs, base, ratings_per_movie, avg_rating_per_movie,
                   top_10_highest_rated, filtered_movies, filtered_avg_ratings,
                   top_10_movies, movie_titles, top_10_movies_df,
                   ratings_by_occupation>>

\* Series.plot(kind='bar') raises on a Series with no entries.
PlotGender ==
    /\ At("plot_gender")
    /\ IF avg_rating_by_gender = <<>>
       THEN Raise
       ELSE Shown(<<"chart: rating by gender">>, "ratings_by_occupation")
    /\ UNCHANGED <<fs, base, derived>>

RatingsByOccupation ==
    /\ At("ratings_by_occupation")
    /\ ratings_by_occupation' \in value_counts(Column(ratings_users, "occupation"))
    /\ Shown(<<"ratings_by_occupation.head">>, "plot_occupation")
    /\ UNCHANGED <<fs, base, ratings_per_movie, avg_rating_per_movie,
                   top_10_highest_rated, filtered_movies, filtered_avg_ratings,
                   top_10_movies, movie_titles, top_10_movies_df,
                   ratings_users, avg_rating_by_gender>>

PlotOccupation ==
    /\ At("plot_occupation")
    /\ IF head(ratings_by_occupation, TopK) = <<>>
       THEN Raise
       ELSE /\ status' = "done" /\ pc' = "end"
            /\ output' = Append(output, "chart: ratings by occupation")
    /\ UNCHANGED <<fs, base, derived>>

Next ==
    \/ LoadMovie \/ LoadRatings \/ LoadUser \/ Overview
    \/ RatingsPerMovie \/ AvgRatingPerMovie \/ FilterMovies \/ Top10Movies
    \/ MovieTitles \/ AttachTitles
    \/ PlotRatingsPerMovie \/ PlotAge
    \/ MergeUsers \/ PlotGender \/ RatingsByOccupation \/ PlotOccupation

Spec == Init /\ [][Next]_vars

(***************************************************************************)
(* What the properties are stated over: the tables themselves, read        *)
(* directly, not through the operations above.                             *)
(***************************************************************************)
Cells == <<"load_movie", "load_ratings", "load_user", "overview",
           "ratings_per_movie", "avg_rating", "filter", "top_10",
           "movie_titles", "attach_titles", "plot_ratings_per_movie",
           "plot_age", "merge_users", "plot_gender", "ratings_by_occupation",
           "plot_occupation", "end">>
CellNo(c) == CHOOSE i \in DOMAIN Cells : Cells[i] = c
\* The run has completed cell c.
Past(c) == CellNo(pc) > CellNo(c)
LoadCells == {"load_movie", "load_ratings", "load_user"}

RatedIds == {ratings[i].movie_id : i \in DOMAIN ratings}
RowsOf(m) == {i \in DOMAIN ratings : ratings[i].movie_id = m}
CountOf(m) == Cardinality(RowsOf(m))
RECURSIVE SumFrom(_, _)
SumFrom(rows, v) ==
    IF v > MaxRating THEN 0
    ELSE v * Cardinality({i \in rows : ratings[i].rating = v})
            + SumFrom(rows, v + 1)
\* <<sum, count>> of the ratings of movie m, from the rows of ratings.
MeanOf(m) == LET rows == RowsOf(m) IN <<SumFrom(rows, MinRating), Cardinality(rows)>>
\* The movies with at least 50 rating rows.
Popular == {m \in RatedIds : CountOf(m) >= MinRatings}

NoRepeat(s) == Cardinality(Ids(s)) = Len(s)
RECURSIVE SumVals(_, _)
SumVals(s, i) == IF i = 0 THEN 0 ELSE s[i].val + SumVals(s, i - 1)
RECURSIVE SumCounts(_, _)
SumCounts(s, i) == IF i = 0 THEN 0 ELSE s[i].val[2] + SumCounts(s, i - 1)
Range(s) == {s[i] : i \in DOMAIN s}

\* Every rating is an integer 1..5.
TypeOK ==
    \A i \in DOMAIN ratings : ratings[i].rating \in MinRating..MaxRating

\* C1: after the filter cell, a rated movie is in filtered_movies exactly when
\* it has at least 50 rating rows; filtered_avg_ratings has the same movie
\* ids, each with the mean of that movie's own rows.
C1_FilterPartitions ==
    Past("filter") =>
        /\ Ids(filtered_movies) \subseteq RatedIds
        /\ \A m \in RatedIds : m \in Ids(filtered_movies) <=> CountOf(m) >= MinRatings
        /\ NoRepeat(filtered_movies) /\ NoRepeat(filtered_avg_ratings)
        /\ Ids(filtered_avg_ratings) = Ids(filtered_movies)
        /\ \A i \in DOMAIN filtered_avg_ratings :
                filtered_avg_ratings[i].val = MeanOf(filtered_avg_ratings[i].id)

\* A movie with exactly 50 rows is retained beside one with 49 that is not.
C1_Witness ==
    /\ Past("filter")
    /\ \E m \in Ids(filtered_movies) : CountOf(m) = MinRatings
    /\ \E m \in RatedIds \ Ids(filtered_movies) : CountOf(m) = MinRatings - 1

\* t is a top-K selection of the candidates C by descending mean.
IsTopK(t, C) ==
    /\ Len(t) = Min(TopK, Cardinality(C))
    /\ NoRepeat(t)
    /\ Ids(t) \subseteq C
    /\ \A i \in DOMAIN t : t[i].val = MeanOf(t[i].id)
    /\ \A i, j \in DOMAIN t : i < j => MeanGe(t[i].val, t[j].val)
    /\ \A c \in C \ Ids(t) :
            LET mean == MeanOf(c) IN \A i \in DOMAIN t : MeanGe(t[i].val, mean)

\* C2: top_10_highest_rated (over all rated movies) and top_10_movies (over
\* the movies with at least 50 ratings) each hold min(10, n) distinct
\* candidates in non-increasing order of mean, and no candidate left out has
\* a higher mean than one selected.
C2_TopKByMean ==
    /\ Past("avg_rating") => IsTopK(top_10_highest_rated, RatedIds)
    /\ Past("top_10") => LET popular == Popular IN IsTopK(top_10_movies, popular)

\* Both rankings had more than 10 candidates, so both cut some off.
C2_Witness ==
    /\ Past("top_10")
    /\ Cardinality(Popular) > TopK
    /\ Len(top_10_movies) = TopK /\ Len(top_10_highest_rated) = TopK

\* The order a stable descending sort gives the entries I of s: among equal
\* means, the earlier entry first.
RECURSIVE StableDesc(_, _)
StableDesc(s, I) ==
    IF I = {} THEN <<>>
    ELSE LET best == {j \in I : \A k \in I : MeanGe(s[j].val, s[k].val)}
             f == CHOOSE j \in best : \A k \in best : j <= k
         IN  <<s[f]>> \o StableDesc(s, I \ {f})
StableTop(s) == SubSeq(StableDesc(s, DOMAIN s), 1, Min(TopK, Len(s)))
SameMeans(t, u) ==
    Len(t) = Len(u) /\ \A i \in DOMAIN t : MeanEq(t[i].val, u[i].val)
DistinctMeans(s) ==
    \A i, j \in DOMAIN s : i # j => ~MeanEq(s[i].val, s[j].val)

C4_CountsConserveRows ==
    Past("ratings_per_movie") =>
        /\ SumVals(ratings_per_movie, Len(ratings_per_movie)) = Len(ratings)
        /\ Ids(ratings_per_movie) = RatedIds
        /\ NoRepeat(ratings_per_movie)
        /\ \A i \in DOMAIN ratings_per_movie :
                /\ ratings_per_movie[i].val >= 1
                /\ ratings_per_movie[i].val = CountOf(ratings_per_movie[i].id)

\* Several movies counted, one of them more than once, and a movie of the
\* movie table that nobody rated.
C4_Witness ==
    /\ Past("ratings_per_movie")
    /\ Len(ratings_per_movie) > 2
    /\ \E i \in DOMAIN ratings_per_movie : ratings_per_movie[i].val > 1
    /\ \E i \in DOMAIN movie : movie[i].movie_id \notin RatedIds

\* C5: every mean of avg_rating_per_movie is the mean of that movie's own
\* rows, and lies between the least and the greatest rating the movie got,
\* hence between 1 and 5 when every rating is.
C5_MeanWithinRange ==
    Past("avg_rating") =>
        LET scale == TypeOK
        IN  /\ Ids(avg_rating_per_movie) = RatedIds
            /\ \A i \in DOMAIN avg_rating_per_movie :
                LET m == avg_rating_per_movie[i].id
                    sum == avg_rating_per_movie[i].val[1]
                    n == avg_rating_per_movie[i].val[2]
                    rows == RowsOf(m)
                    given == {ratings[r].rating : r \in rows}
                IN  /\ n >= 1
                    /\ \A r \in given : (\A q \in given : r <= q) => r * n <= sum
                    /\ \A r \in given : (\A q \in given : r >= q) => sum <= r * n
                    /\ scale => MinRating * n <= sum /\ sum <= MaxRating * n
                    /\ sum = SumFrom(rows, MinRating) /\ n = Cardinality(rows)

\* A movie with differing ratings, its mean strictly between them, beside
\* another movie with other ratings.
C5_Witness ==
    /\ Past("avg_rating")
    /\ \E i \in DOMAIN avg_rating_per_movie :
        LET v == avg_rating_per_movie[i].val
            given == {ratings[r].rating : r \in RowsOf(avg_rating_per_movie[i].id)}
        IN  /\ \E r \in given : r * v[2] < v[1]
            /\ \E r \in given : r * v[2] > v[1]
    /\ \E i, j \in DOMAIN avg_rating_per_movie :
            ~MeanEq(avg_rating_per_movie[i].val, avg_rating_per_movie[j].val)

KnownUsers == {user[i].user_id : i \in DOMAIN user}
UniqueUsers ==
    \A i, j \in DOMAIN user : i # j => user[i].user_id # user[j].user_id
MovieKeys == {movie[i].movie_id : i \in DOMAIN movie}
UniqueMovies ==
    \A i, j \in DOMAIN movie : i # j => movie[i].movie_id # movie[j].movie_id

\* C6: with user id unique in the user table, ratings_users is the ratings
\* whose user id the user table has, one row each (so as many rows as ratings
\* less the ratings of unmatched users); and the per-gender group sizes, like
\* the per-occupation counts, add up to the rows of ratings_users.
C6_JoinLosesOnlyUnmatched ==
    Past("merge_users") =>
        LET known == KnownUsers
            kept == SelectSeq(ratings, LAMBDA r : r.user_id \in known)
            lost == {i \in DOMAIN ratings : ratings[i].user_id \notin known}
        IN  /\ UniqueUsers =>
                /\ Len(ratings_users) = Len(ratings) - Cardinality(lost)
                /\ [i \in DOMAIN ratings_users |->
                        [user_id |-> ratings_users[i].user_id,
                         movie_id |-> ratings_users[i].movie_id,
                         rating |-> ratings_users[i].rating]] = kept
            /\ SumCounts(avg_rating_by_gender, Len(avg_rating_by_gender))
                    = Len(ratings_users)
            /\ Past("ratings_by_occupation") =>
                    SumVals(ratings_by_occupation, Len(ratings_by_occupation))
                        = Len(ratings_users)

\* Some ratings are by a user the (duplicate-free) user table lacks, the
\* others were joined and counted by occupation.
C6_Witness ==
    /\ Past("ratings_by_occupation")
    /\ UniqueUsers
    /\ \E i \in DOMAIN ratings : ratings[i].user_id \notin KnownUsers
    /\ Len(ratings_by_occupation) > 1
    /\ Len(avg_rating_by_gender) > 1

\* C7: the title join never raises; top_10_movies_df has a row for a ranked
\* id exactly when the movie table has that id; with movie id a unique key it
\* is the matched entries of top_10_movies, in their order and with their
\* means, at most 10 rows, each with the title the movie table gives that id.
C7_TitleJoinDropsUnmatched ==
    /\ status = "aborted" => pc # "attach_titles"
    /\ Past("attach_titles") =>
        LET keys == MovieKeys
            ranked == reset_index(top_10_movies)
            kept == SelectSeq(ranked, LAMBDA r : r.movie_id \in keys)
        IN  /\ {top_10_movies_df[i].movie_id : i \in DOMAIN top_10_movies_df}
                    = Ids(top_10_movies) \cap keys
            /\ \A i \in DOMAIN top_10_movies_df :
                    \E j \in DOMAIN movie :
                        /\ movie[j].movie_id = top_10_movies_df[i].movie_id
                        /\ movie[j].movie_title = top_10_movies_df[i].movie_title
            /\ UniqueMovies =>
                /\ Len(top_10_movies_df) <= TopK
                /\ [i \in DOMAIN top_10_movies_df |->
                        [movie_id |-> top_10_movies_df[i].movie_id,
                         rating |-> top_10_movies_df[i].rating]] = kept

\* Ten movies were ranked, some of them missing from the (duplicate-free)
\* movie table, and the run went on with the titles of the others.
C7_Witness ==
    /\ Past("attach_titles")
    /\ UniqueMovies
    /\ Len(top_10_movies) = TopK
    /\ \E m \in Ids(top_10_movies) : m \notin MovieKeys
    /\ Len(top_10_movies_df) > 1

\* C8: a base table changes only in its own load cell; every later cell
\* leaves movie, ratings and user as they were loaded.
C8_BaseTablesFrozen ==
    [][/\ movie' # movie => pc = "load_movie"
       /\ ratings' # ratings => pc = "load_ratings"
       /\ user' # user => pc = "load_user"
       /\ pc \notin LoadCells => base' = base]_vars

\* A whole run over three non-empty tables, with every aggregate computed.
C8_Witness ==
    /\ status = "done"
    /\ movie = fs.movie.rows /\ movie # <<>>
    /\ ratings = fs.ratings.rows /\ ratings # <<>>
    /\ user = fs.user.rows /\ user # <<>>
    /\ top_10_movies_df # <<>> /\ ratings_users # <<>>

FileOf(cell) ==
    IF cell = "load_movie" THEN fs.movie
    ELSE IF cell = "load_ratings" THEN fs.ratings ELSE fs.user
Previews == {"movie.head", "ratings.head", "user.head"}

\* C9: the run never gets past the load cell of a file that cannot be
\* loaded: it is aborted there for good, with nothing shown but the previews
\* of the tables loaded before it; a summary is shown only after all three
\* files were loaded.
C9_LoadFailureAborts ==
    /\ \A c \in LoadCells : ~Loadable(FileOf(c)) => ~Past(c)
    /\ (\E c \in LoadCells : ~Loadable(FileOf(c))) =>
            /\ status # "done"
            /\ Range(output) \subseteq Previews
    /\ status = "aborted" /\ pc \in LoadCells =>
            /\ ~Loadable(FileOf(pc))
            /\ ~ENABLED Next
    /\ Range(output) \ Previews # {} =>
            /\ \A c \in LoadCells : Loadable(FileOf(c))
            /\ movie = fs.movie.rows /\ ratings = fs.ratings.rows
            /\ user = fs.user.rows

\* ratings.csv does not parse: the run stopped there, after movie.csv loaded.
C9_Witness ==
    /\ status = "aborted" /\ pc = "load_ratings"
    /\ fs.ratings.state = "malformed"
    /\ output = <<"movie.head">>

====
